---- MODULE Spec2Model ----
(***************************************************************************)
(* Super Snake: the frame loop of super_snake.py (variant "V1_0") and of   *)
(* super_snake_V1.1.py (variant "V1_1").                                   *)
(*                                                                         *)
(* One behaviour is one run of one of the two programs.  A frame of either *)
(* program drains the pending events one by one and then runs the update   *)
(* block once; here every event handler is one action and the update block *)
(* is one action, so the events that fire between two updates are the      *)
(* batch of that frame, in arrival order.                                  *)
(*                                                                         *)
(* A grid position is a pair <<x, y>>, a direction a pair <<dx, dy>>, the  *)
(* snake a sequence of positions, tail first and head last, as in the      *)
(* Python lists.                                                           *)
(***************************************************************************)
EXTENDS Integers, Sequences, FiniteSets, TLC

(* Bounds.  The programs play on a 30 x 30 grid; the model plays on a      *)
(* smaller one, and stops feeding the snake at MaxScore.                   *)
GRID_WIDTH == 5
GRID_HEIGHT == 2
MaxScore == 2

(* Elapsed time per frame, clock.tick(FPS), in milliseconds: a multiple of  *)
(* DtStep, from one to MaxDtSteps steps.                                    *)
DtStep == 100
MaxDtSteps == 3

(* Number of frames of the run that drives both programs side by side *)
MaxFrames == 6

(* SHAKE_DURATION = 0.3 seconds, in milliseconds *)
SHAKE_DURATION == 300

VARIABLES
    variant,          \* which program runs: "V1_0" or "V1_1"
    pc,               \* "start": start-screen loop, "game": main loop, "exited"
    in_start_screen,  \* in_start_screen (V1.0) / in_start (V1.1)
    running,          \* V1.0's loop flag; V1.1 has none and it stays TRUE
    snake,
    direction,
    next_direction,
    food,
    score,
    game_over,
    shake_time,       \* V1.1's remaining shake, in ms; V1.0 has none and it stays 0
    last,             \* the branch of the loop body that ran last
    pair              \* both programs' direction and next_direction, when
                      \* they are driven side by side; else NoPair

program == <<variant, pc, in_start_screen, running, snake, direction,
             next_direction, food, score, game_over, shake_time, last>>

vars == <<program, pair>>

game == <<snake, direction, next_direction, food, score, game_over>>

----------------------------------------------------------------------------
(* Values *)

UP == <<0, -1>>
DOWN == <<0, 1>>
LEFT == <<-1, 0>>
RIGHT == <<1, 0>>

Directions == {UP, DOWN, LEFT, RIGHT}

\* the branch of the key chain a directional key takes, by its direction
KeyLabel(d) ==
    CASE d = UP -> "key_up"
      [] d = DOWN -> "key_down"
      [] d = LEFT -> "key_left"
      [] d = RIGHT -> "key_right"

(* Every cell random.randint(0, GRID_WIDTH - 1) x randint(0, GRID_HEIGHT - 1) *)
(* can draw.                                                                 *)
Grid == (0 .. GRID_WIDTH - 1) \X (0 .. GRID_HEIGHT - 1)

(* The names snake, direction, next_direction and food are not bound while *)
(* the start screen runs; Unbound stands for "no value yet".               *)
Unbound == <<>>

(* Python's `pos in snake` on a list of tuples. *)
InSnake(pos, s) == \E i \in 1 .. Len(s) : s[i] = pos

(* (next_direction[0] * -1, next_direction[1] * -1) *)
Reverse(d) == <<d[1] * (-1), d[2] * (-1)>>

(* Variant of Pop0 that removes the head end, as snake.pop() would. *)
PopLast(s) == SubSeq(s, 1, Len(s) - 1)

(* snake.pop(0) *)
Pop0(s) == SubSeq(s, 2, Len(s))

----------------------------------------------------------------------------
(* Food placement.  The loop draws cells until one is not in the snake, so  *)
(* it can return any free cell, and it returns none when no cell is free.   *)

\* Variant of random_food_position that tests the snake without its head.
RandomFoodIgnoringHead(s) ==
    {pos \in Grid : ~InSnake(pos, SubSeq(s, 1, Len(s) - 1))}

random_food_position(s) == {pos \in Grid : ~InSnake(pos, s)}

\* Variant of random_food that returns the first cell drawn, free or not.
RandomFoodAnyCell11(s) == Grid

random_food(s) == {pos \in Grid : ~InSnake(pos, s)}

----------------------------------------------------------------------------
(* Game init and restart values *)

\* [(GRID_WIDTH // 2 + i, GRID_HEIGHT // 2) for i in range(3)][::-1]
InitSnake10 ==
    << <<GRID_WIDTH \div 2 + 2, GRID_HEIGHT \div 2>>,
       <<GRID_WIDTH \div 2 + 1, GRID_HEIGHT \div 2>>,
       <<GRID_WIDTH \div 2 + 0, GRID_HEIGHT \div 2>> >>

\* [(GRID_WIDTH//2 - 1, GRID_HEIGHT//2), (GRID_WIDTH//2, GRID_HEIGHT//2)]
InitSnake11 ==
    << <<GRID_WIDTH \div 2 - 1, GRID_HEIGHT \div 2>>,
       <<GRID_WIDTH \div 2, GRID_HEIGHT \div 2>> >>

----------------------------------------------------------------------------
\* no side-by-side run: one program runs
NoPair ==
    [direction10 |-> Unbound, next_direction10 |-> Unbound,
     direction11 |-> Unbound, next_direction11 |-> Unbound,
     keyed |-> FALSE, frames |-> 0]

Init ==
    /\ variant \in {"V1_0", "V1_1"}
    /\ pc = "start"
    /\ in_start_screen = TRUE
    /\ running = TRUE
    /\ snake = Unbound
    /\ direction = Unbound
    /\ next_direction = Unbound
    /\ food = Unbound
    /\ score = 0
    /\ game_over = FALSE
    /\ shake_time = 0
    /\ last = "launch"
    /\ pair = NoPair

----------------------------------------------------------------------------
(* Start screen *)

\* K_SPACE on the start screen
StartSpace ==
    /\ pc = "start"
    /\ in_start_screen' = FALSE
    /\ last' = "start_space"
    /\ UNCHANGED <<pair, variant, pc, running, shake_time, game>>

\* pygame.QUIT or K_ESCAPE on the start screen: pygame.quit(); sys.exit()
StartQuit ==
    /\ pc = "start"
    /\ pc' = "exited"
    /\ last' = "start_quit"
    /\ UNCHANGED <<pair, variant, in_start_screen, running, shake_time, game>>

\* any other key on the start screen (R, arrows, WASD, ...): no branch takes it
StartOtherKey ==
    /\ pc = "start"
    /\ last' = "start_key_ignored"
    /\ UNCHANGED <<pair, variant, pc, in_start_screen, running, shake_time, game>>

\* the start loop ends once in_start_screen is false; game init follows
GameInit10 ==
    /\ variant = "V1_0"
    /\ pc = "start"
    /\ ~in_start_screen
    /\ snake' = InitSnake10
    /\ direction' = LEFT
    /\ next_direction' = direction'
    /\ food' \in random_food_position(snake')
    /\ score' = 0
    /\ game_over' = FALSE
    /\ pc' = "game"
    /\ last' = "game_init"
    /\ UNCHANGED <<pair, variant, in_start_screen, running, shake_time>>

GameInit11 ==
    /\ variant = "V1_1"
    /\ pc = "start"
    /\ ~in_start_screen
    /\ snake' = InitSnake11
    /\ direction' = RIGHT
    /\ next_direction' = direction'
    /\ food' \in random_food(snake')
    /\ score' = 0
    /\ game_over' = FALSE
    /\ shake_time' = 0
    /\ pc' = "game"
    /\ last' = "game_init"
    /\ UNCHANGED <<pair, variant, in_start_screen, running>>

----------------------------------------------------------------------------
(* Main loop of super_snake.py: event handlers *)

\* Variant of Handling10 in which the frame goes on after running = False.
HandlingAfterQuit10 == variant = "V1_0" /\ pc = "game"

\* the handlers run for the events of a frame while the for loop has not
\* been left by `break`
Handling10 == variant = "V1_0" /\ pc = "game" /\ running

\* pygame.QUIT, or K_ESCAPE: running = False; break
Quit10 ==
    /\ Handling10
    /\ running' = FALSE
    /\ last' = "quit"
    /\ UNCHANGED <<pair, variant, pc, in_start_screen, shake_time, game>>

\* if not running: break, then pygame.quit()
ExitLoop10 ==
    /\ variant = "V1_0"
    /\ pc = "game"
    /\ ~running
    /\ pc' = "exited"
    /\ last' = "exit_loop"
    /\ UNCHANGED <<pair, variant, in_start_screen, running, shake_time, game>>

\* K_UP/K_w, K_DOWN/K_s, K_LEFT/K_a, K_RIGHT/K_d: next_direction = d
KeyPending10(d, dir, nd) == d

KeyDirection10(d) ==
    /\ Handling10
    /\ next_direction' = KeyPending10(d, direction, next_direction)
    /\ last' = KeyLabel(d)
    /\ UNCHANGED <<pair, variant, pc, in_start_screen, running, snake, direction,
                   food, score, game_over, shake_time>>

\* K_SPACE: prints when not game_over, matches no branch otherwise
KeySpace10 ==
    /\ Handling10
    /\ UNCHANGED vars

\* Variant of Restart10 that leaves the score as it is.
RestartKeepsScore10 ==
    /\ snake' = InitSnake10
    /\ direction' = LEFT
    /\ next_direction' = direction'
    /\ food' \in random_food_position(snake')
    /\ score' = score
    /\ game_over' = FALSE

\* the body of the branch `event.key == pygame.K_r and game_over`
Restart10 ==
    /\ snake' = InitSnake10
    /\ direction' = LEFT
    /\ next_direction' = direction'
    /\ food' \in random_food_position(snake')
    /\ score' = 0
    /\ game_over' = FALSE

\* Variant of KeyR10 that restarts whether or not the game is over.
KeyRAlways10 ==
    /\ Handling10
    /\ Restart10 /\ last' = "restart"
    /\ UNCHANGED <<pair, variant, pc, in_start_screen, running, shake_time>>

\* K_r: restarts when game_over, matches no branch otherwise
KeyR10 ==
    /\ Handling10
    /\ IF game_over
          THEN Restart10 /\ last' = "restart"
          ELSE UNCHANGED game /\ last' = "key_r_ignored"
    /\ UNCHANGED <<pair, variant, pc, in_start_screen, running, shake_time>>

----------------------------------------------------------------------------
(* Main loop of super_snake.py: the update block *)

\* Variant of CommitDirection10 that commits the pending direction unchecked.
CommitDirectionUnchecked10(nd, d) == nd

\* Variant of CommitDirection10 that compares the reverse of next_direction
\* with next_direction itself.
CommitDirectionComparesPending10(nd, d) == IF Reverse(nd) # nd THEN nd ELSE d

\* if (next_direction[0] * -1, next_direction[1] * -1) != direction:
\*     direction = next_direction
CommitDirection10(nd, d) == IF Reverse(nd) # d THEN nd ELSE d

\* head_x, head_y = snake[-1]; new_head = (head_x + d[0], head_y + d[1])
NewHead10(s, d) == <<s[Len(s)][1] + d[1], s[Len(s)][2] + d[2]>>

\* Variant of WallCollision10 with <= in place of < on the upper bounds.
WallCollisionInclusive10(new_head) ==
    ~(/\ 0 <= new_head[1] /\ new_head[1] <= GRID_WIDTH
      /\ 0 <= new_head[2] /\ new_head[2] <= GRID_HEIGHT)

\* not (0 <= new_head[0] < GRID_WIDTH and 0 <= new_head[1] < GRID_HEIGHT)
WallCollision10(new_head) ==
    ~(/\ 0 <= new_head[1] /\ new_head[1] < GRID_WIDTH
      /\ 0 <= new_head[2] /\ new_head[2] < GRID_HEIGHT)

\* Variant of SelfCollision10 that looks at the head segment only.
SelfCollisionHeadOnly10(new_head, s) == new_head = s[Len(s)]

\* new_head in snake
SelfCollision10(new_head, s) == InSnake(new_head, s)

\* the else branch: snake.append(new_head), then eat or pop
Advance10(new_head) ==
    LET appended == Append(snake, new_head) IN
    IF new_head = food
       THEN /\ score' = score + 1
            /\ snake' = appended
            /\ IF random_food_position(appended) # {}
                  THEN /\ food' \in random_food_position(appended)
                       /\ pc' = pc
                       /\ last' = "eat"
                  ELSE \* the while True loop never returns
                       /\ food' = food
                       /\ pc' = "placing_food"
                       /\ last' = "eat"
            /\ UNCHANGED game_over
       ELSE /\ snake' = Pop0(appended)
            /\ last' = "move"
            /\ UNCHANGED <<pc, food, score, game_over>>

\* the block under `if not game_over:`
Tick10 ==
    LET d == CommitDirection10(next_direction, direction)
        new_head == NewHead10(snake, d)
    IN  /\ direction' = d
        /\ IF WallCollision10(new_head)
              THEN /\ game_over' = TRUE
                   /\ last' = "wall"
                   /\ UNCHANGED <<pc, snake, food, score>>
              ELSE IF SelfCollision10(new_head, snake)
                      THEN /\ game_over' = TRUE
                           /\ last' = "self"
                           /\ UNCHANGED <<pc, snake, food, score>>
                      ELSE Advance10(new_head)
        /\ UNCHANGED next_direction

\* Variant of Update10 without the test of game_over.
UpdateUnguarded10 ==
    /\ Handling10
    /\ Tick10
    /\ UNCHANGED <<pair, variant, in_start_screen, running, shake_time>>

\* the rest of a frame after the events: the update runs unless game_over
Update10 ==
    /\ Handling10
    /\ IF ~game_over
          THEN Tick10
          ELSE /\ last' = "frame_game_over"
               /\ UNCHANGED <<pc, game>>
    /\ UNCHANGED <<pair, variant, in_start_screen, running, shake_time>>

----------------------------------------------------------------------------
(* Main loop of super_snake_V1.1.py: event handlers *)

Handling11 == variant = "V1_1" /\ pc = "game"

\* pygame.QUIT, or K_ESCAPE: pygame.quit(); sys.exit()
Quit11 ==
    /\ Handling11
    /\ pc' = "exited"
    /\ last' = "quit"
    /\ UNCHANGED <<pair, variant, in_start_screen, running, shake_time, game>>

\* K_UP/K_w: if direction != (0, 1): next_direction = (0, -1), and likewise
\* for the other three keys, each compared with the reverse of its own d
KeyPending11(d, dir, nd) == IF dir # Reverse(d) THEN d ELSE nd

KeyDirection11(d) ==
    /\ Handling11
    /\ next_direction' = KeyPending11(d, direction, next_direction)
    /\ last' = KeyLabel(d)
    /\ UNCHANGED <<pair, variant, pc, in_start_screen, running, snake, direction,
                   food, score, game_over, shake_time>>

\* any key no branch takes (SPACE, ...)
KeyOther11 ==
    /\ Handling11
    /\ UNCHANGED vars

\* Variant of Restart11 that keeps the one-segment snake of line 133.
RestartOneSegment11 ==
    /\ snake' = << <<GRID_WIDTH \div 2, GRID_HEIGHT \div 2>> >>
    /\ direction' = RIGHT
    /\ next_direction' = direction'
    /\ food' \in random_food(snake')
    /\ score' = 0
    /\ game_over' = FALSE

\* the body of the branch `event.key == pygame.K_r and game_over`
Restart11 ==
    /\ snake' = InitSnake11
    /\ direction' = RIGHT
    /\ next_direction' = direction'
    /\ food' \in random_food(snake')
    /\ score' = 0
    /\ game_over' = FALSE

\* K_r: restarts when game_over, matches no branch otherwise
KeyR11 ==
    /\ Handling11
    /\ IF game_over
          THEN Restart11 /\ last' = "restart"
          ELSE UNCHANGED game /\ last' = "key_r_ignored"
    /\ UNCHANGED <<pair, variant, pc, in_start_screen, running, shake_time>>

----------------------------------------------------------------------------
(* Main loop of super_snake_V1.1.py: the update block *)

CommitDirection11(nd, d) == IF Reverse(nd) # d THEN nd ELSE d

\* Variant of NewHead11 that adds direction[1] to both coordinates.
NewHeadSameOffset11(s, d) == <<s[Len(s)][1] + d[2], s[Len(s)][2] + d[2]>>

NewHead11(s, d) == <<s[Len(s)][1] + d[1], s[Len(s)][2] + d[2]>>

\* Variant of Collision11 without the test of the row.
CollisionIgnoringRow11(new_head, s) ==
    \/ InSnake(new_head, s)
    \/ ~(0 <= new_head[1] /\ new_head[1] < GRID_WIDTH)

\* (new_head in snake) or not (0 <= new_head[0] < GRID_WIDTH)
\*                     or not (0 <= new_head[1] < GRID_HEIGHT)
Collision11(new_head, s) ==
    \/ InSnake(new_head, s)
    \/ ~(0 <= new_head[1] /\ new_head[1] < GRID_WIDTH)
    \/ ~(0 <= new_head[2] /\ new_head[2] < GRID_HEIGHT)

\* dt = clock.tick(FPS) / 1000.0
DtChoices == {k * DtStep : k \in 1 .. MaxDtSteps}

\* Variant of DecayShake without the floor max(0.0, ...).
DecayShakeNoFloor(st, dt) == IF st > 0 THEN st - dt ELSE st

\* if shake_time > 0: shake_time = max(0.0, shake_time - dt)
DecayShake(st, dt) ==
    IF st > 0 THEN (IF st - dt > 0 THEN st - dt ELSE 0) ELSE st

\* what `if eat_sound: ... eat_sound.play()` can do: there is no sound
\* object, play() returns, or play() raises
PlayOutcomes == {"no_sound", "played", "raised"}

\* an exception of play() leaves the try statement uncaught
PlayPropagatesError(outcome) == outcome # "raised"

\* try: eat_sound.play() / except Exception: print(...): control reaches
\* the statement after the try whatever play() did
PlayCompletes(outcome) == TRUE

\* the else branch: snake.append(new_head), then eat or pop; then the decay
Advance11(new_head, dt) ==
    LET appended == Append(snake, new_head) IN
    IF new_head = food
       THEN /\ score' = score + 1
            /\ snake' = appended
            /\ IF random_food(appended) # {}
                  THEN /\ food' \in random_food(appended)
                       /\ \E outcome \in PlayOutcomes :
                             IF PlayCompletes(outcome)
                                THEN \* shake_time = shake_duration, then
                                     \* the decay
                                     /\ shake_time' =
                                            DecayShake(SHAKE_DURATION, dt)
                                     /\ pc' = pc
                                     /\ last' = IF outcome = "raised"
                                                   THEN "eat_play_failed"
                                                   ELSE "eat"
                                ELSE \* the exception ends the process
                                     /\ shake_time' = shake_time
                                     /\ pc' = "exited"
                                     /\ last' = "eat_play_failed"
                  ELSE \* the while True loop never returns
                       /\ food' = food
                       /\ shake_time' = shake_time
                       /\ pc' = "placing_food"
                       /\ last' = "eat"
            /\ UNCHANGED game_over
       ELSE /\ snake' = Pop0(appended)
            /\ shake_time' = DecayShake(shake_time, dt)
            /\ last' = "move"
            /\ UNCHANGED <<pc, food, score, game_over>>

\* the block under `if not game_over:`, then the decay of the shake
Tick11(dt) ==
    LET d == CommitDirection11(next_direction, direction)
        new_head == NewHead11(snake, d)
    IN  /\ direction' = d
        /\ IF Collision11(new_head, snake)
              THEN /\ game_over' = TRUE
                   /\ shake_time' = DecayShake(shake_time, dt)
                   /\ last' = "collision"
                   /\ UNCHANGED <<pc, snake, food, score>>
              ELSE Advance11(new_head, dt)
        /\ UNCHANGED next_direction

\* the rest of a frame after the events: the update runs unless game_over,
\* the shake decays in either case
Update11 ==
    /\ Handling11
    /\ \E dt \in DtChoices :
          IF ~game_over
             THEN Tick11(dt)
             ELSE /\ shake_time' = DecayShake(shake_time, dt)
                  /\ last' = "frame_game_over"
                  /\ UNCHANGED <<pc, game>>
    /\ UNCHANGED <<pair, variant, in_start_screen, running>>

----------------------------------------------------------------------------
Next ==
    \/ StartSpace
    \/ StartQuit
    \/ StartOtherKey
    \/ GameInit10
    \/ GameInit11
    \/ Quit10
    \/ ExitLoop10
    \/ \E d \in Directions : KeyDirection10(d)
    \/ KeySpace10
    \/ KeyR10
    \/ Update10 /\ score' <= MaxScore
    \/ Quit11
    \/ \E d \in Directions : KeyDirection11(d)
    \/ KeyOther11
    \/ KeyR11
    \/ Update11 /\ score' <= MaxScore

Spec == Init /\ [][Next]_vars

\* the same program played on until the grid is full: the score is bounded
\* by the number of cells
NextFill ==
    \/ StartSpace
    \/ StartQuit
    \/ StartOtherKey
    \/ GameInit10
    \/ GameInit11
    \/ Quit10
    \/ ExitLoop10
    \/ \E d \in Directions : KeyDirection10(d)
    \/ KeySpace10
    \/ KeyR10
    \/ Update10
    \/ Quit11
    \/ \E d \in Directions : KeyDirection11(d)
    \/ KeyOther11
    \/ KeyR11
    \/ Update11

SpecFill == Init /\ [][NextFill]_vars

----------------------------------------------------------------------------
(* Both programs side by side: the same committed direction to start from, *)
(* as after game init with next_direction = direction, and the same keys,  *)
(* at most one directional key in a frame.  Only the direction handling    *)
(* of the two main loops runs: the key branches and the commit of the      *)
(* update block, in frames in which the game is being played.              *)

InitPair ==
    /\ variant \in {"V1_0", "V1_1"}
    /\ pc = "start"
    /\ in_start_screen = TRUE
    /\ running = TRUE
    /\ snake = Unbound
    /\ direction = Unbound
    /\ next_direction = Unbound
    /\ food = Unbound
    /\ score = 0
    /\ game_over = FALSE
    /\ shake_time = 0
    /\ last = "launch"
    /\ \E d \in Directions :
          pair = [direction10 |-> d, next_direction10 |-> d,
                  direction11 |-> d, next_direction11 |-> d,
                  keyed |-> FALSE, frames |-> 0]

\* the frame's directional key, handled by both key chains
PairKey(d) ==
    /\ pair.frames < MaxFrames
    /\ ~pair.keyed
    /\ pair' = [pair EXCEPT
                  !.next_direction10 =
                      KeyPending10(d, pair.direction10, pair.next_direction10),
                  !.next_direction11 =
                      KeyPending11(d, pair.direction11, pair.next_direction11),
                  !.keyed = TRUE]
    /\ UNCHANGED program

\* the commit of both update blocks, which ends the frame
PairTick ==
    /\ pair.frames < MaxFrames
    /\ pair' = [pair EXCEPT
                  !.direction10 =
                      CommitDirection10(pair.next_direction10, pair.direction10),
                  !.direction11 =
                      CommitDirection11(pair.next_direction11, pair.direction11),
                  !.keyed = FALSE,
                  !.frames = @ + 1]
    /\ UNCHANGED program

NextPair ==
    \/ \E d \in Directions : PairKey(d)
    \/ PairTick

SpecPair == InitPair /\ [][NextPair]_vars

----------------------------------------------------------------------------
(* Vocabulary of the properties, written on the state alone *)

Mode ==
    IF pc = "exited" \/ ~running THEN "Terminated"
    ELSE IF pc = "start" THEN "Start"
    ELSE IF game_over THEN "GameOver"
    ELSE "Playing"

HeadOf(s) == s[Len(s)]

Step(pos, d) == <<pos[1] + d[1], pos[2] + d[2]>>

Inverse(a, b) == a[1] = 0 - b[1] /\ a[2] = 0 - b[2]

OnGrid(pos) ==
    /\ pos[1] \in 0 .. GRID_WIDTH - 1
    /\ pos[2] \in 0 .. GRID_HEIGHT - 1

Occupied(pos, s) == \E i \in DOMAIN s : s[i] = pos

\* a step that is the update block of a frame (every step that is no
\* stuttering step leaves its branch in last)
UpdateStep ==
    last' \in {"move", "eat", "eat_play_failed", "wall", "self", "collision",
               "frame_game_over"}

\* an update that ate
EatStep == last' \in {"eat", "eat_play_failed"}

\* a movement tick: the update block of a frame in Playing mode
TickStep == Mode = "Playing" /\ UpdateStep

\* a step that handles the R key in the main loop
KeyRStep == last' \in {"restart", "key_r_ignored"}

\* a step that handles, on the start screen, a key other than SPACE and
\* Esc, R among them
StartKeyStep == last' = "start_key_ignored"

\* the cell the tick tries: the head moved by the direction the tick commits
Tried == Step(HeadOf(snake), direction')

\* the tick's move is rejected: off the grid or onto a segment
Rejected == ~OnGrid(Tried) \/ Occupied(Tried, snake)

TypeOK ==
    /\ variant \in {"V1_0", "V1_1"}
    /\ pc \in {"start", "game", "exited", "placing_food"}
    /\ score \in 0 .. MaxScore
    /\ shake_time \in 0 .. SHAKE_DURATION
    /\ snake # Unbound => /\ direction \in Directions
                          /\ next_direction \in Directions
                          /\ food \in Grid

----------------------------------------------------------------------------
(* C1: in every state reachable from game init, whatever keys and ticks    *)
(* and restarts led to it, every snake segment is a cell of the grid.      *)
C1_SegmentsOnGrid == \A i \in DOMAIN snake : OnGrid(snake[i])

\* the snake stands with its head at a wall after the tick into that wall
\* was rejected
C1_Witness ==
    /\ game_over
    /\ last \in {"wall", "collision"}
    /\ ~OnGrid(Step(HeadOf(snake), direction))

(* C2: in every reachable state the segments of the snake are pairwise     *)
(* distinct cells.                                                         *)
C2_SegmentsDistinct ==
    \A i, j \in DOMAIN snake : i # j => snake[i] # snake[j]

\* a tick onto a segment other than the tail was rejected
C2_Witness ==
    /\ game_over
    /\ last \in {"self", "collision"}
    /\ \E i \in 2 .. Len(snake) : snake[i] = Step(HeadOf(snake), direction)

(* C3: on a tick that does not eat, moving the head into the cell of the   *)
(* current tail is no collision: the snake is translated by one cell and   *)
(* the mode stays Playing.                                                 *)
C3_TailCellIsFree ==
    [][(TickStep /\ Tried = snake[1] /\ Tried # food /\ Len(snake) > 2)
          => /\ snake' = Append(SubSeq(snake, 2, Len(snake)), Tried)
             /\ ~game_over']_vars

(* C4 as stated: on a tick whose pending direction is the inverse of the   *)
(* committed one, the committed direction is kept and the head advances in *)
(* it; no tick commits the inverse of the direction committed before it.   *)
C4_ReversalAdvances ==
    [][TickStep =>
          /\ ~Inverse(direction', direction)
          /\ Inverse(next_direction, direction) =>
                /\ direction' = direction
                /\ HeadOf(snake') = Step(HeadOf(snake), direction)]_vars

(* C4 as amended: on such a tick the committed direction is kept, and the   *)
(* head advances in it unless that move is a collision, in which case the  *)
(* snake stays and the game is over; no tick commits the inverse of the    *)
(* direction committed before it.                                          *)
C4_ReversalIgnored ==
    [][TickStep =>
          /\ ~Inverse(direction', direction)
          /\ Inverse(next_direction, direction) =>
                /\ direction' = direction
                /\ IF ~OnGrid(Step(HeadOf(snake), direction))
                      \/ Occupied(Step(HeadOf(snake), direction), snake)
                      THEN snake' = snake /\ game_over'
                      ELSE HeadOf(snake') = Step(HeadOf(snake), direction)]_vars

\* the snake has just moved on while the pending direction is the inverse
\* of the committed one
C4_Witness ==
    /\ last = "move"
    /\ Inverse(next_direction, direction)

(* C5: on a tick whose new head is the food cell, with no collision, the   *)
(* score grows by one, the snake is the old snake with the new head        *)
(* appended, and the food placed anew is on no cell of that snake.         *)
C5_EatGrows ==
    [][(TickStep /\ ~Rejected /\ Tried = food)
          => /\ score' = score + 1
             /\ snake' = Append(snake, Tried)
             /\ Len(snake') = Len(snake) + 1
             /\ pc' # "placing_food" =>
                   OnGrid(food') /\ ~Occupied(food', snake')]_vars

C5_Witness ==
    /\ last = "eat"
    /\ pc = "game"
    /\ score > 0
    /\ HeadOf(snake) # food

(* C6: on a tick with no collision whose new head is not the food cell,    *)
(* the snake is the old one without its tail and with the new head, of the *)
(* same length, and score and food are unchanged.                          *)
C6_MoveKeepsLength ==
    [][(TickStep /\ ~Rejected /\ Tried # food)
          => /\ snake' = Append(SubSeq(snake, 2, Len(snake)), Tried)
             /\ Len(snake') = Len(snake)
             /\ score' = score
             /\ food' = food]_vars

C6_Witness ==
    /\ last = "move"
    /\ score > 0

(* C7: on a tick whose new head is off the grid or on a segment, the mode  *)
(* becomes GameOver and snake, score and food stay as they were.           *)
C7_CollisionKeepsSnake ==
    [][(TickStep /\ Rejected)
          => /\ Mode' = "GameOver"
             /\ snake' = snake
             /\ score' = score
             /\ food' = food]_vars

C7_Witness ==
    /\ Mode = "GameOver"
    /\ last \in {"wall", "self", "collision"}
    /\ score > 0

(* C8: while the game is over, no step but the handling of R changes the   *)
(* snake, the food or the score, and the update block changes nothing of   *)
(* the game in any mode other than Playing.                                *)
C8_GameOverFreezes ==
    [][/\ (game_over /\ ~KeyRStep) =>
             /\ snake' = snake
             /\ food' = food
             /\ score' = score
             /\ game_over'
       /\ (UpdateStep /\ Mode # "Playing") => UNCHANGED game]_vars

\* a frame ran in GameOver mode after a direction key had changed the
\* pending direction
C8_Witness ==
    /\ Mode = "GameOver"
    /\ last = "frame_game_over"
    /\ next_direction # direction
    /\ ~Inverse(next_direction, direction)

(* C9: the state right after R is handled in GameOver mode has the shape   *)
(* of the state right after game init: the initial snake, committed and    *)
(* pending direction both the initial one, score 0, mode Playing, and the  *)
(* food on a free cell.                                                    *)
C9_RestartIsGameInit ==
    last \in {"restart", "game_init"} =>
        /\ snake = (IF variant = "V1_0" THEN InitSnake10 ELSE InitSnake11)
        /\ direction = (IF variant = "V1_0" THEN LEFT ELSE RIGHT)
        /\ next_direction = direction
        /\ score = 0
        /\ Mode = "Playing"
        /\ OnGrid(food)
        /\ ~Occupied(food, snake)

C9_Witness == last = "restart"

(* C10: R is ignored in Start and in Playing mode: handling it changes     *)
(* none of snake, food, score, committed direction, pending direction and  *)
(* mode.                                                                   *)
C10_RestartOnlyWhenOver ==
    [][((KeyRStep \/ StartKeyStep) /\ Mode \in {"Start", "Playing"})
          => /\ UNCHANGED <<snake, food, score, direction, next_direction>>
             /\ Mode' = Mode]_vars

\* R has just been handled, and ignored, while the snake was under way
C10_Witness ==
    /\ last = "key_r_ignored"
    /\ Mode = "Playing"
    /\ score > 0

(* C11: in every state after game init in which the frame loop stands       *)
(* between two steps, Playing or GameOver, the food is a cell of the grid   *)
(* that no snake segment occupies.                                          *)
C11_FoodOffSnake ==
    (snake # Unbound /\ pc # "placing_food") =>
        OnGrid(food) /\ ~Occupied(food, snake)

\* the food placed by the last eat lies on the cell right in front of the
\* grown snake
C11_Witness ==
    /\ last = "eat"
    /\ pc = "game"
    /\ Len(snake) > 3
    /\ food = Step(HeadOf(snake), direction)

(* C15: in every reachable state each pair of consecutive snake segments    *)
(* is at Manhattan distance 1.                                              *)
Abs(n) == IF n < 0 THEN 0 - n ELSE n

Manhattan(a, b) == Abs(a[1] - b[1]) + Abs(a[2] - b[2])

C15_SegmentsAdjacent ==
    \A i \in DOMAIN snake :
        i < Len(snake) => Manhattan(snake[i], snake[i + 1]) = 1

\* a snake with two bends
C15_Witness ==
    /\ Len(snake) > 3
    /\ snake[1][1] = snake[2][1]
    /\ snake[2][2] = snake[3][2]
    /\ snake[3][1] = snake[4][1]

C14_ModeTransitions ==
    [][/\ Mode' # Mode =>
             \/ /\ Mode = "Start" /\ Mode' = "Playing"
                /\ last' = "game_init" /\ ~in_start_screen
             \/ /\ Mode = "Playing" /\ Mode' = "GameOver"
                /\ UpdateStep /\ Rejected
             \/ /\ Mode = "GameOver" /\ Mode' = "Playing"
                /\ last' = "restart"
             \/ /\ Mode' = "Terminated"
                /\ last' \in {"quit", "start_quit"}
       /\ Mode = "Terminated" =>
             /\ Mode' = "Terminated"
             /\ ~UpdateStep
             /\ UNCHANGED game]_vars

\* the quit arrived while the grown snake was under way, and the loop was
\* left without an update
C14_Witness ==
    /\ last = "exit_loop"
    /\ pc = "exited"
    /\ ~game_over
    /\ score > 0

(* C16: right after R is handled in GameOver mode the remaining shake is 0, *)
(* its value at game init, also when the shake started by the last eat is  *)
(* still running.                                                          *)
C16_RestartClearsShake == last = "restart" => shake_time = 0

(* C18: with the elapsed time an integer number of milliseconds, the       *)
(* remaining shake is always between 0 and SHAKE_DURATION; it rises only   *)
(* in a frame that eats, to SHAKE_DURATION less that frame's decay; in any *)
(* other frame it falls by the elapsed time, not below 0; and no other     *)
(* step changes it.                                                        *)
MaxOf(a, b) == IF a > b THEN a ELSE b

\* the time a frame may take: none, or up to MaxDtSteps steps of DtStep
Elapsed == {k * DtStep : k \in 0 .. MaxDtSteps}

----------------------------------------------------------------------------
(* C17: when eat_sound.play() raises on an eat tick of V1.1, the exception *)
(* is caught and the tick ends as an eat tick with a successful play ends: *)
(* the score is one more, the snake has grown by the food cell, the food   *)
(* is a new free cell, the shake has been started (and decayed by this     *)
(* frame's dt), the mode is still Playing and the main loop goes on.       *)
C17_PlayErrorIsCaught ==
    [][last' = "eat_play_failed" =>
          /\ variant = "V1_1"
          /\ Tried = food
          /\ score' = score + 1
          /\ snake' = Append(snake, food)
          /\ OnGrid(food') /\ ~Occupied(food', snake')
          /\ \E dt \in Elapsed : shake_time' = MaxOf(0, SHAKE_DURATION - dt)
          /\ Mode = "Playing" /\ Mode' = "Playing"
          /\ pc' = "game"
          /\ UNCHANGED <<pair, variant, in_start_screen, running>>]_vars

\* a failed play on the second eat tick; the game is still being played
C17_Witness ==
    /\ last = "eat_play_failed"
    /\ pc = "game"
    /\ score = 2
    /\ Len(snake) = 4
    /\ ~game_over

----------------------------------------------------------------------------
(* C13: the tick of a frame uses, as its pending direction, the direction  *)
(* of the last directional key of the frame's batch, whatever keys came    *)
(* before it: the direction the tick commits is that key's direction, or   *)
(* the direction committed before when the key asks for its reverse.       *)
KeyLabels == {KeyLabel(d) : d \in Directions}

\* the direction of the directional key whose branch ran last
LastKey == CHOOSE d \in Directions : KeyLabel(d) = last

C13_LastKeyDecides ==
    [][(TickStep /\ last \in KeyLabels) =>
          direction' = IF Inverse(LastKey, direction)
                          THEN direction
                          ELSE LastKey]_vars

----------------------------------------------------------------------------
(* C12: food placement always terminates: also when the snake has just     *)
(* eaten the last free cell and covers the whole grid, the placement       *)
(* returns or fails and the frame completes, so the program is never left  *)
(* inside the placement loop.                                              *)
C12_PlacementTerminates == pc # "placing_food"

----------------------------------------------------------------------------
(* C20: super_snake.py and super_snake_V1.1.py, started with the same      *)
(* committed direction and given the same keys, at most one directional    *)
(* key in a frame, commit the same direction on every tick.                *)
C20_SameCommittedDirection == pair.direction10 = pair.direction11

\* after a tick in which V1.0 rejected at the commit the reversal that V1.1
\* had dropped at the key: the pending directions differ, the committed
\* ones do not
C20_Witness ==
    /\ pair.frames >= 2
    /\ ~pair.keyed
    /\ pair.next_direction10 = Reverse(pair.direction10)
    /\ pair.next_direction11 = pair.direction11
    /\ pair.direction10 \in {UP, DOWN}

====
